---- MODULE Spec2Model ----
(***************************************************************************)
(* The mail pipeline of main_working_2.py (fetch_and_process_emails and    *)
(* its helpers) as a state machine.  Text is a sequence of one-character   *)
(* strings, so that strip(), lower(), regular-expression matching and the  *)
(* CSV round trip of pandas are computed, not assumed.                     *)
(***************************************************************************)
EXTENDS Integers, Sequences, FiniteSets, TLC

\* ------------------------------------------------------------------ bounds
\* unread messages beyond the list limit in the large mailbox
BatchExtra == 1
\* messages that arrive in the mailbox during one behaviour
MaxArrivals == 3

\* longest subject a helper is called with
SubjectLen == 5

\* longest list of label ids a helper is called with
LabelIdsLen == 4

\* longest header value a helper is called with
HeaderLen == 5

\* unread messages in the mailbox when both pipeline scripts are invoked
PeerMsgs == 1

\* messages that arrive in the mailbox of odd messages, and invocations on it
PayloadArrivals == 1
PayloadRuns == 2

\* most parts, and longest filename, of a payload a helper is called with
PartsLen == 2
FilenameLen == 2

\* longest list of labels in a JSON object the model returns to the editor
EditorListLen == 3

\* messages().list(..., maxResults=10)
MaxResults == 10

\* ------------------------------------------------------------------ text
UpperLetters ==
  <<"A","B","C","D","E","F","G","H","I","J","K","L","M",
    "N","O","P","Q","R","S","T","U","V","W","X","Y","Z">>

LowerLetters ==
  <<"a","b","c","d","e","f","g","h","i","j","k","l","m",
    "n","o","p","q","r","s","t","u","v","w","x","y","z">>

\* the lower-case letter of every upper-case letter
LowerOf ==
  [c \in {UpperLetters[k] : k \in 1..26} |->
     LowerLetters[CHOOSE k \in 1..26 : UpperLetters[k] = c]]

\* the upper-case letters
UpperSet == {UpperLetters[k] : k \in 1..26}

LowerChar(c) == IF c \in UpperSet THEN LowerOf[c] ELSE c

\* str.lower()
Lower(s) == [k \in 1..Len(s) |-> LowerChar(s[k])]

\* the characters str.strip() removes when called without argument
Whitespace == {" ", "\n", "\t", "\r"}

\* index of the first character of s not in chars, Len(s)+1 when there is none
FirstKept(s, chars) ==
  IF \E k \in 1..Len(s) : s[k] \notin chars
    THEN CHOOSE k \in 1..Len(s) : s[k] \notin chars /\ \A j \in 1..(k-1) : s[j] \in chars
    ELSE Len(s) + 1

\* index of the last character of s not in chars, 0 when there is none
LastKept(s, chars) ==
  IF \E k \in 1..Len(s) : s[k] \notin chars
    THEN CHOOSE k \in 1..Len(s) : s[k] \notin chars /\ \A j \in (k+1)..Len(s) : s[j] \in chars
    ELSE 0

\* str.strip(chars)
StripChars(s, chars) == SubSeq(s, FirstKept(s, chars), LastKept(s, chars))

\* str.rstrip(chars)
RStripChars(s, chars) == SubSeq(s, 1, LastKept(s, chars))

\* str.strip()
Strip(s) == StripChars(s, Whitespace)

\* sub in s
Contains(sub, s) ==
  \E k \in 0..(Len(s) - Len(sub)) : SubSeq(s, k + 1, k + Len(sub)) = sub

\* x in lst, for a list
InList(x, lst) == \E k \in 1..Len(lst) : lst[k] = x

\* the texts (or lists) of at most n characters (or entries) of chars
Texts(chars, n) == UNION {[1..k -> chars] : k \in 0..n}

\* ------------------------------------------------------------------ literals
Other == <<"O","t","h","e","r">>
NoSubject == <<"(","N","o"," ","S","u","b","j","e","c","t",")">>
UnknownSender == <<"(","U","n","k","n","o","w","n"," ","S","e","n","d","e","r",")">>
Yes == <<"Y","e","s">>
No == <<"N","o">>
Empty == <<>>

\* ------------------------------------------------------------------ mailbox
\* A message of the mailbox as messages().get returns it: payload headers,
\* payload body, payload parts, internalDate.  Its labelIds are the state
\* msgLabels.  data fields hold [enc |-> text]: the base64 form of text.
NoData == [hasData |-> FALSE, data |-> [enc |-> <<>>]]
Data(t) == [hasData |-> TRUE, data |-> [enc |-> t]]

Part(mime, fname, body) == [mimeType |-> mime, filename |-> fname, body |-> body]

Msg0 ==
  [headers |-> << [name |-> "Subject", value |-> <<"N","A">>],
                  [name |-> "From", value |-> <<"A","l"," ","<","a","@","x",">">>],
                  [name |-> "To", value |-> <<"b","@","x">>] >>,
   body |-> Data(<<"h","i">>),
   hasParts |-> FALSE,
   parts |-> <<>>]

Msg1 ==
  [headers |-> << [name |-> "From", value |-> <<"\"","J","o","\""," ","<","j","@","x",">">>],
                  [name |-> "Subject", value |-> <<"F","w","d",":"," ","r">>],
                  [name |-> "To", value |-> <<"<","b","@","x",">">>] >>,
   body |-> NoData,
   hasParts |-> TRUE,
   parts |-> << Part("text/html", <<>>, Data(<<"<","p",">">>)),
                Part("text/plain", <<>>, Data(<<"y","o">>)),
                Part("application/pdf", <<"f",".","a">>, NoData),
                Part("image/png", <<"g">>, NoData) >>]

Msg2 ==
  [headers |-> << [name |-> "From", value |-> <<"c","@","x">>] >>,
   body |-> NoData,
   hasParts |-> FALSE,
   parts |-> <<>>]

\* Messages with missing or malformed fields.  A key the message lacks is a
\* field the record lacks; data that is no base64 text has no enc.

\* an empty headers list, no body, no parts
MsgBare == [headers |-> <<>>, hasParts |-> FALSE, parts |-> <<>>]

\* a part without mimeType, a text/plain part without body, then a good one
MsgBadParts ==
  [headers |-> << [name |-> "Subject", value |-> <<"s">>] >>,
   body |-> NoData,
   hasParts |-> TRUE,
   parts |-> << [filename |-> <<"f">>, body |-> NoData],
                [mimeType |-> "text/plain", filename |-> <<>>],
                Part("text/plain", <<>>, Data(<<"y","o">>)) >>]

\* body data that does not decode
MsgBadData ==
  [headers |-> << [name |-> "From", value |-> <<"c","@","x">>] >>,
   body |-> [hasData |-> TRUE, data |-> [raw |-> <<"%">>]],
   hasParts |-> FALSE,
   parts |-> <<>>]

\* a payload without the headers list
MsgNoHeaders == [body |-> Data(<<"h","i">>), hasParts |-> FALSE, parts |-> <<>>]

\* the message with id m: three kinds of message, repeated; the ids 21 to 25
\* are the messages with missing or malformed fields
Mailbox(m) ==
  IF m \in 21..25
    THEN CASE m = 21 -> MsgBare
           [] m = 22 -> MsgBadParts
           [] m = 23 -> MsgBadData
           [] m = 24 -> MsgNoHeaders
           [] OTHER -> Msg0
    ELSE CASE m % 3 = 1 -> Msg0
           [] m % 3 = 2 -> Msg1
           [] OTHER -> Msg2

\* "internalDate" in full_msg: message 25 has no timestamp
HasInternalDate(m) == m # 25

\* labelIds of message m before any run
InitialLabelIds(m) ==
  CASE m % 3 = 1 -> {"UNREAD", "INBOX"}
    [] m % 3 = 2 -> {"UNREAD", "CATEGORY_PROMOTIONS", "CATEGORY_SOCIAL"}
    [] OTHER -> {"UNREAD", "INBOX", "CATEGORY_UPDATES"}

\* ------------------------------------------------------------------ extraction
\* next((h["value"] for h in headers if h["name"] == name), default)
HeaderValue(headers, name, default) ==
  IF \E k \in 1..Len(headers) : headers[k].name = name
    THEN headers[CHOOSE k \in 1..Len(headers) :
                   /\ headers[k].name = name
                   /\ \A j \in 1..(k-1) : headers[j].name # name].value
    ELSE default

\* the part of full that re.match's "." can cross: up to the first newline
FirstLine(full) ==
  IF \E k \in 1..Len(full) : full[k] = "\n"
    THEN SubSeq(full, 1, (CHOOSE k \in 1..Len(full) :
                            full[k] = "\n" /\ \A j \in 1..(k-1) : full[j] # "\n") - 1)
    ELSE full

\* positions p < q of line with line[p] = "<" and line[q] = ">"
AnglePairs(line) ==
  {pq \in (1..Len(line)) \X (1..Len(line)) :
     pq[1] < pq[2] /\ line[pq[1]] = "<" /\ line[pq[2]] = ">"}

\* the value taken whole for the address
parse_email_whole(full) == [name |-> Empty, email |-> Strip(full)]

\* parse_email: re.match(r'(.*)<(.*)>', full), both groups greedy
parse_email(full) ==
  LET line == FirstLine(full)
      prs == AnglePairs(line)
  IN IF prs # {}
       THEN LET p == CHOOSE p \in {pq[1] : pq \in prs} : \A o \in {pq[1] : pq \in prs} : o <= p
                q == CHOOSE q \in {pq[2] : pq \in prs} : \A o \in {pq[2] : pq \in prs} : o <= q
            IN [name |-> StripChars(Strip(SubSeq(line, 1, p - 1)), {"\""}),
                email |-> Strip(SubSeq(line, p + 1, q - 1))]
       ELSE [name |-> Empty, email |-> Strip(full)]

\* what the try block of get_email_body ends with: the body, or an exception
BodyIs(t) == [raised |-> FALSE, body |-> t]
BodyRaised == [raised |-> TRUE, body |-> <<>>]

\* base64.urlsafe_b64decode(data).decode("utf-8", errors="ignore")
B64Decode(data) == IF "enc" \in DOMAIN data THEN BodyIs(data.enc) ELSE BodyRaised

\* lines 44-47: the loop over the parts
RECURSIVE PartsBody(_)
PartsBody(parts) ==
  IF parts = <<>> THEN BodyIs(Empty)
  ELSE LET part == Head(parts)
       IN IF "mimeType" \notin DOMAIN part THEN BodyRaised
          ELSE IF part.mimeType # "text/plain" THEN PartsBody(Tail(parts))
          ELSE IF "body" \notin DOMAIN part THEN BodyRaised
          ELSE IF part.body.hasData THEN B64Decode(part.body.data)
          ELSE PartsBody(Tail(parts))

\* lines 41-47
TryBody(payload) ==
  IF "body" \in DOMAIN payload /\ payload.body.hasData
    THEN B64Decode(payload.body.data)
    ELSE IF payload.hasParts THEN PartsBody(payload.parts) ELSE BodyIs(Empty)

get_email_body(payload) ==
  IF TryBody(payload).raised THEN Empty ELSE TryBody(payload).body

\* "Yes" if "Fwd:" in subject or "FW:" in subject else "No"
Forwarded(subject) ==
  IF Contains(<<"F","w","d",":">>, subject) \/ Contains(<<"F","W",":">>, subject)
    THEN Yes ELSE No

\* the characters \w of a regular expression matches
WordChars ==
  UpperSet \cup {LowerLetters[k] : k \in 1..26}
  \cup {"0","1","2","3","4","5","6","7","8","9","_"}

\* main_working_1.py:
\* "Yes" if re.search(r'\b(Fwd|FW):', subject, re.IGNORECASE) else "No"
Forwarded_1(subject) ==
  IF \E k \in 1..Len(subject) :
       /\ k = 1 \/ subject[k - 1] \notin WordChars
       /\ \E alt \in {<<"f","w","d",":">>, <<"f","w",":">>} :
            /\ k + Len(alt) - 1 <= Len(subject)
            /\ Lower(SubSeq(subject, k, k + Len(alt) - 1)) = alt
    THEN Yes ELSE No

RECURSIVE JoinNames(_)
\* attachment_names += part.get("filename") + ", "  for every part with a filename
JoinNames(parts) ==
  IF parts = <<>> THEN <<>>
  ELSE (IF Head(parts).filename # <<>> THEN Head(parts).filename \o <<",", " ">> ELSE <<>>)
       \o JoinNames(Tail(parts))

\* the attachment flag and names of a payload
Attachments(payload) ==
  LET parts == IF payload.hasParts THEN payload.parts ELSE <<>>
  IN [attachment |-> IF \E k \in 1..Len(parts) : parts[k].filename # <<>> THEN Yes ELSE No,
      names |-> RStripChars(JoinNames(parts), {",", " "})]

\* the section of the first identifier of the list that names a section
get_section_of_first(label_ids) ==
  LET cats == SelectSeq(label_ids, LAMBDA x : x \in {"CATEGORY_SOCIAL", "CATEGORY_PROMOTIONS",
                                                    "CATEGORY_UPDATES", "CATEGORY_FORUMS"})
  IN IF cats = <<>> THEN <<"P","r","i","m","a","r","y">>
     ELSE IF cats[1] = "CATEGORY_SOCIAL" THEN <<"S","o","c","i","a","l">>
     ELSE IF cats[1] = "CATEGORY_PROMOTIONS" THEN <<"P","r","o","m","o","t","i","o","n","s">>
     ELSE IF cats[1] = "CATEGORY_UPDATES" THEN <<"U","p","d","a","t","e","s">>
     ELSE <<"F","o","r","u","m","s">>

\* get_section, label_ids the list full_msg.get("labelIds", [])
get_section(label_ids) ==
  IF InList("CATEGORY_SOCIAL", label_ids) THEN <<"S","o","c","i","a","l">>
  ELSE IF InList("CATEGORY_PROMOTIONS", label_ids) THEN <<"P","r","o","m","o","t","i","o","n","s">>
  ELSE IF InList("CATEGORY_UPDATES", label_ids) THEN <<"U","p","d","a","t","e","s">>
  ELSE IF InList("CATEGORY_FORUMS", label_ids) THEN <<"F","o","r","u","m","s">>
  ELSE <<"P","r","i","m","a","r","y">>

\* an order in which the mailbox lists the label ids of a message
LabelIdOrder ==
  <<"UNREAD", "INBOX", "CATEGORY_PROMOTIONS", "CATEGORY_UPDATES", "CATEGORY_FORUMS",
    "CATEGORY_SOCIAL", "Label_1", "Label_2", "Label_3", "Label_4", "Label_5", "Label_6">>

\* the labelIds of a message as the list messages().get returns
IdList(label_ids) == SelectSeq(LabelIdOrder, LAMBDA x : x \in label_ids)

DigitChars == <<"0","1","2","3","4","5","6","7","8","9">>

\* pd.to_datetime(int(internalDate), unit='ms') as to_csv writes it, for the
\* internalDate m (milliseconds, below 1000) of message m
DateText(m) ==
  <<"1","9","7","0","-","0","1","-","0","1"," ","0","0",":","0","0",":","0","0",".">>
  \o <<DigitChars[((m \div 100) % 10) + 1], DigitChars[((m \div 10) % 10) + 1],
       DigitChars[(m % 10) + 1]>>

\* round(end_time - start_time, 2) as text; the clock is outside the program
TimeTakenValues == { <<"0",".","5">> }

\* the list appended to rows for message m
ExtractRow(m, label_ids, time_taken, category) ==
  LET payload == Mailbox(m)
      headers == payload.headers
      subject == HeaderValue(headers, "Subject", NoSubject)
      sender == parse_email(HeaderValue(headers, "From", UnknownSender))
      to == parse_email(HeaderValue(headers, "To", Empty))
      att == Attachments(payload)
  IN << sender.name, sender.email, to.email,
        Forwarded(subject), subject, get_email_body(payload),
        get_section(IdList(label_ids)),
        att.attachment, att.names, DateText(m),
        time_taken, category >>

\* ------------------------------------------------------------------ record store
\* columns of the DataFrame built from rows
Columns ==
  <<"From Name", "From Email", "To Email", "Forwarded", "Subject",
    "Body", "Section", "Attachment", "Attachment Names", "Date",
    "TimeTaken", "Category">>

\* A frame or a file: [exists, columns, rows]; a row is [msg, cells], cells a
\* function from column names to text.  msg is not a column: it only records
\* which message the row was made from.
NoFile == [exists |-> FALSE, columns |-> <<>>, rows |-> <<>>]

\* a missing value of a DataFrame (not a text: its one element is no character)
NaN == <<"NaN">>

ColumnSet(cols) == {cols[k] : k \in 1..Len(cols)}

\* pd.DataFrame(rows, columns=cols)
DataFrame(rws, cols) ==
  [exists |-> TRUE,
   columns |-> cols,
   rows |-> [k \in 1..Len(rws) |->
               [msg |-> rws[k].msg,
                cells |-> [c \in ColumnSet(cols) |->
                             rws[k].vals[CHOOSE j \in 1..Len(cols) : cols[j] = c]]]]]

\* the texts read_csv takes for a missing value (keep_default_na=True)
NAValues ==
  { <<>>, <<"N","A">>, <<"N","/","A">>, <<"n","/","a">>, <<"N","U","L","L">>,
    <<"n","u","l","l">>, <<"N","a","N">>, <<"n","a","n">>, <<"N","o","n","e">>,
    <<"#","N","/","A">>, <<"#","N","A">>, <<"<","N","A",">">>, <<"-","N","a","N">>,
    <<"-","n","a","n">> }

IsDigits(t) ==
  /\ Len(t) > 0
  /\ \A k \in 1..Len(t) : \E d \in 1..10 : DigitChars[d] = t[k]

\* the text of the integer that the digits t denote
CanonInt(t) ==
  LET z == FirstKept(t, {"0"})
  IN IF z > Len(t) THEN <<"0">> ELSE SubSeq(t, z, Len(t))

\* the cells of column c as read_csv infers them: a column whose present
\* cells are all integers becomes int64, or float64 when a cell is missing
ParsedCell(rws, c, k) ==
  LET present == {j \in 1..Len(rws) : rws[j].cells[c] \notin NAValues}
      t == rws[k].cells[c]
  IN IF t \in NAValues THEN NaN
     ELSE IF \A j \in present : IsDigits(rws[j].cells[c])
       THEN IF present = 1..Len(rws) THEN CanonInt(t) ELSE CanonInt(t) \o <<".", "0">>
       ELSE t

\* pd.read_csv(file)
read_csv(file) ==
  [exists |-> TRUE,
   columns |-> file.columns,
   rows |-> [k \in 1..Len(file.rows) |->
               [msg |-> file.rows[k].msg,
                cells |-> [c \in ColumnSet(file.columns) |-> ParsedCell(file.rows, c, k)]]]]

\* the columns of b that a lacks, in b's order
RECURSIVE NewColumns(_, _)
NewColumns(a, b) ==
  IF b = <<>> THEN <<>>
  ELSE (IF Head(b) \in ColumnSet(a) THEN <<>> ELSE <<Head(b)>>) \o NewColumns(a, Tail(b))

\* a row of a frame laid out on the columns cols
Reindex(row, cols) ==
  [msg |-> row.msg,
   cells |-> [c \in ColumnSet(cols) |-> IF c \in DOMAIN row.cells THEN row.cells[c] ELSE NaN]]

\* pd.concat([a, b], ignore_index=True)
concat(a, b) ==
  LET cols == a.columns \o NewColumns(a.columns, b.columns)
  IN [exists |-> TRUE,
      columns |-> cols,
      rows |-> [k \in 1..(Len(a.rows) + Len(b.rows)) |->
                  IF k <= Len(a.rows) THEN Reindex(a.rows[k], cols)
                  ELSE Reindex(b.rows[k - Len(a.rows)], cols)]]

\* df.to_csv(file, index=False): a missing value is written as the empty text
to_csv(df) ==
  [exists |-> TRUE,
   columns |-> df.columns,
   rows |-> [k \in 1..Len(df.rows) |->
               [msg |-> df.rows[k].msg,
                cells |-> [c \in ColumnSet(df.columns) |->
                             IF df.rows[k].cells[c] = NaN THEN Empty ELSE df.rows[k].cells[c]]]]]

\* ------------------------------------------------------------------ classifier
\* What the external call of categorize_email (subprocess.run of the model)
\* can do: raise, or return with some stdout.
Raised == [raised |-> TRUE, stdout |-> <<>>]
Stdout(t) == [raised |-> FALSE, stdout |-> t]

ClassifierOutcomes(labels) ==
  {Raised, Stdout(<<>>), Stdout(<<"z","z">>), Stdout(Other), Stdout(<<" ","\n">>)}
  \cup {Stdout(labels[k]) : k \in 1..Len(labels)}
  \cup {Stdout(<<" ">> \o labels[k] \o <<"\n">>) : k \in 1..Len(labels)}
  \cup {Stdout(labels[k] \o <<"\n">> \o labels[k]) : k \in 1..Len(labels)}
  \cup {Stdout(Lower(labels[k])) : k \in 1..Len(labels)}

\* categorize_email, given what the external call did
categorize_email(outcome, labels) ==
  IF outcome.raised THEN Other
  ELSE LET category == Strip(outcome.stdout)
       IN IF ~InList(category, labels) THEN Other ELSE category

\* ------------------------------------------------------------------ labels
Wk == <<"W","k">>
wk == <<"w","k">>
NA == <<"N","A">>

\* the keys of config.json that hold lists, and all its keys
ListKeys == {"Label", "Friends", "HighPriorityEmails"}
ConfigKeys == ListKeys \cup {"EmailMap"}

\* A JSON object with keys among those of config.json: keys are the keys it
\* has, bad those of them whose value is null; a key it lacks, or a null one,
\* is held empty.  EmailMap is the list of the entries [k, v] of the object.
Json(keys, bad, label, friends, hp, emailmap) ==
  LET has(key, value) == IF key \in keys \ bad THEN value ELSE <<>>
  IN [exists |-> TRUE, keys |-> keys, bad |-> bad \cap keys,
      Label |-> has("Label", label),
      Friends |-> has("Friends", friends),
      HighPriorityEmails |-> has("HighPriorityEmails", hp),
      EmailMap |-> has("EmailMap", emailmap)]

\* config.json: absent, or with a "Label" list
NoConfig ==
  [exists |-> FALSE, keys |-> {}, bad |-> {}, Label |-> <<>>, Friends |-> <<>>,
   HighPriorityEmails |-> <<>>, EmailMap |-> <<>>]
Config(labels) == Json({"Label"}, {}, labels, <<>>, <<>>, <<>>)

\* the labels every mailbox has (id and name)
SystemLabels ==
  << [id |-> "INBOX", name |-> <<"I","N","B","O","X">>],
     [id |-> "UNREAD", name |-> <<"U","N","R","E","A","D">>] >>

\* ids the mailbox gives to created labels, in order of creation
LabelIdPool == <<"Label_1", "Label_2", "Label_3", "Label_4", "Label_5", "Label_6">>

\* label_id = None
NoId == ""

\* the loop of move_to_label, were it to compare the names as they are
FindLabelCaseSensitive(labels, label_name) ==
  IF \E k \in 1..Len(labels) : labels[k].name = label_name
    THEN labels[CHOOSE k \in 1..Len(labels) :
                  /\ labels[k].name = label_name
                  /\ \A j \in 1..(k-1) : labels[j].name # label_name].id
    ELSE ""

\* the loop of move_to_label over the listed labels
FindLabel(labels, label_name) ==
  IF \E k \in 1..Len(labels) : Lower(labels[k].name) = Lower(label_name)
    THEN labels[CHOOSE k \in 1..Len(labels) :
                  /\ Lower(labels[k].name) = Lower(label_name)
                  /\ \A j \in 1..(k-1) : Lower(labels[j].name) # Lower(label_name)].id
    ELSE NoId

\* a modify that sets the labels of the message to the added ones
ModifyReplacing(label_ids, add, remove) == IF add # {} THEN add ELSE label_ids \ remove

\* messages().modify(body={"addLabelIds": add, "removeLabelIds": remove})
Modify(label_ids, add, remove) == (label_ids \cup add) \ remove

\* the elements of a set of numbers in ascending order
Ascending(S) ==
  [k \in 1..Cardinality(S) |-> CHOOSE x \in S : Cardinality({y \in S : y < x}) = k - 1]

\* messages().list without maxResults
ListUnreadUnlimited(labels, limit) ==
  Ascending({m \in DOMAIN labels : "UNREAD" \in labels[m]})

\* messages().list(labelIds=["UNREAD"], maxResults=limit)
ListUnread(labels, limit) ==
  LET unread == Ascending({m \in DOMAIN labels : "UNREAD" \in labels[m]})
  IN IF Len(unread) <= limit THEN unread ELSE SubSeq(unread, 1, limit)

\* ------------------------------------------------------------------ main_working_1.py
\* The other pipeline script of the repository: it writes the same file
\* emails.csv, with its own columns.

\* re.sub(r'<.*?>', '', s)
RECURSIVE RemoveAngles(_)
RemoveAngles(s) ==
  IF s = <<>> THEN <<>>
  ELSE IF /\ s[1] = "<"
          /\ \E q \in 2..Len(s) : s[q] = ">" /\ \A j \in 2..(q - 1) : s[j] \notin {">", "\n"}
    THEN LET q == CHOOSE q \in 2..Len(s) : s[q] = ">" /\ \A j \in 2..(q - 1) : s[j] # ">"
         IN RemoveAngles(SubSeq(s, q + 1, Len(s)))
    ELSE <<s[1]>> \o RemoveAngles(Tail(s))

\* parse_email of main_working_1.py: the address alone
parse_email_1(full) == parse_email(full).email

\* the header lines the body is cleared of, lower-cased: four dashes or five
ForwardedMarkers ==
  { <<"-","-","-","-"," ","f","o","r","w","a","r","d","e","d"," ","m","e","s","s","a","g","e"," ","-","-","-","-">>,
    <<"-","-","-","-","-"," ","f","o","r","w","a","r","d","e","d"," ","m","e","s","s","a","g","e"," ","-","-","-","-">> }

\* length of the match of r'-----? Forwarded message -----?.*?\n' (DOTALL,
\* IGNORECASE) at the start of s, 0 when it does not match there
ForwardedHeaderAt(s) ==
  IF \E mk \in ForwardedMarkers :
       /\ Len(mk) <= Len(s) /\ Lower(SubSeq(s, 1, Len(mk))) = mk
       /\ \E n \in (Len(mk) + 1)..Len(s) : s[n] = "\n"
    THEN LET mk == CHOOSE mk \in ForwardedMarkers :
                     Len(mk) <= Len(s) /\ Lower(SubSeq(s, 1, Len(mk))) = mk
         IN CHOOSE n \in (Len(mk) + 1)..Len(s) :
              s[n] = "\n" /\ \A j \in (Len(mk) + 1)..(n - 1) : s[j] # "\n"
    ELSE 0

\* re.sub(r'(-----? Forwarded message -----?.*?\n)+', '', body, DOTALL|IGNORECASE)
RECURSIVE RemoveForwardedHeaders(_)
RemoveForwardedHeaders(body) ==
  IF body = <<>> THEN <<>>
  ELSE IF ForwardedHeaderAt(body) > 0
    THEN RemoveForwardedHeaders(SubSeq(body, ForwardedHeaderAt(body) + 1, Len(body)))
    ELSE <<body[1]>> \o RemoveForwardedHeaders(Tail(body))

CouldNotExtract == <<"(","C","o","u","l","d"," ","n","o","t"," ","e","x","t","r","a","c","t"," ","b","o","d","y",")">>

\* get_email_body of main_working_1.py
get_email_body_1(payload) ==
  IF TryBody(payload).raised THEN CouldNotExtract
  ELSE RemoveForwardedHeaders(TryBody(payload).body)

NoContent == <<"(","N","o"," ","c","o","n","t","e","n","t"," ","t","o"," ","s","u","m","m","a","r","i","z","e",")">>
SummaryFailed == <<"(","S","u","m","m","a","r","y"," ","f","a","i","l","e","d",":"," ","e",")">>

\* what the external call of summarize_text can do
SummaryOutcomes == {Raised, Stdout(<<" ","o","k","\n">>)}

\* summarize_text, given what the external call did
summarize_text(outcome, text) ==
  IF Strip(text) = <<>> THEN NoContent
  ELSE IF outcome.raised THEN SummaryFailed
  ELSE Strip(outcome.stdout)

\* get_header(name) or default
HeaderOr(headers, name, default) ==
  IF HeaderValue(headers, name, Empty) = Empty THEN default ELSE HeaderValue(headers, name, Empty)

\* the list main_working_1.py appends to rows for message m
ExtractRow_1(m, label_ids, time_taken, outcome) ==
  LET payload == Mailbox(m)
      headers == payload.headers
      subject == HeaderOr(headers, "Subject", NoSubject)
      from == HeaderValue(headers, "From", Empty)
      body == get_email_body_1(payload)
      att == Attachments(payload)
  IN << Strip(RemoveAngles(from)), parse_email_1(from),
        parse_email_1(HeaderValue(headers, "To", Empty)),
        parse_email_1(HeaderValue(headers, "Cc", Empty)),
        parse_email_1(HeaderValue(headers, "Bcc", Empty)),
        Forwarded_1(subject), subject, body, summarize_text(outcome, body), att.attachment,
        att.names, get_section(IdList(label_ids)), DateText(m), time_taken >>

\* columns of the DataFrame main_working_1.py builds from rows
Columns_1 ==
  <<"From Name", "From Email", "To Email", "CC Email", "BCC Email",
    "Forwarded", "Subject", "Body", "Summary", "Attachment",
    "AttachmentNames", "Section", "Date", "TimeTaken">>

\* ------------------------------------------------------------------ agent_b.py
\* The config editor: every instruction is given to a model, the JSON object
\* in its output replaces the config, which is cleaned and saved.

ax == <<"a","@","x">>
Ax == <<"A","@","x">>

\* list(dict.fromkeys(lst)): of equal entries the first is kept
DedupExact(lst) ==
  LET first == {k \in 1..Len(lst) : \A j \in 1..(k - 1) : lst[j] # lst[k]}
  IN [i \in 1..Cardinality(first) |-> lst[Ascending(first)[i]]]

\* seen = {}; seen[x.lower()] = x for x in lst; list(seen.values()): one entry
\* for every lower-cased text, at the place of its first entry, spelled as
\* its last
DedupCase(lst) ==
  LET first == {k \in 1..Len(lst) : \A j \in 1..(k - 1) : Lower(lst[j]) # Lower(lst[k])}
      last(k) == CHOOSE j \in k..Len(lst) :
                   /\ Lower(lst[j]) = Lower(lst[k])
                   /\ \A i \in (j + 1)..Len(lst) : Lower(lst[i]) # Lower(lst[k])
  IN [i \in 1..Cardinality(first) |-> lst[last(Ascending(first)[i])]]

\* new_map[k.lower()] = v for k, v in emailmap.items()
LowerKeys(emailmap) ==
  LET first == {k \in 1..Len(emailmap) :
                  \A j \in 1..(k - 1) : Lower(emailmap[j].k) # Lower(emailmap[k].k)}
      last(k) == CHOOSE j \in k..Len(emailmap) :
                   /\ Lower(emailmap[j].k) = Lower(emailmap[k].k)
                   /\ \A i \in (j + 1)..Len(emailmap) :
                        Lower(emailmap[i].k) # Lower(emailmap[k].k)
  IN [i \in 1..Cardinality(first) |->
        [k |-> Lower(emailmap[Ascending(first)[i]].k),
         v |-> emailmap[last(Ascending(first)[i])].v]]

clean_duplicates(cfg) ==
  [cfg EXCEPT !.keys = @ \cup ListKeys,
              !.Label = DedupExact(@),
              !.Friends = DedupExact(@),
              !.HighPriorityEmails = DedupExact(@)]

normalize_case(cfg) ==
  [cfg EXCEPT !.keys = @ \cup ConfigKeys,
              !.Label = DedupCase(@),
              !.Friends = DedupCase(@),
              !.HighPriorityEmails = DedupCase(@),
              !.EmailMap = LowerKeys(@)]

\* clean_duplicates or normalize_case raises: dict.fromkeys(None) or
\* None.items()
CleanRaises(cfg) == cfg.bad # {}

\* The output of the model, cut in pieces: text without brace, text that
\* opens a brace, text that closes one, or the text of a JSON object.
TextPiece == [kind |-> "text", obj |-> NoConfig]
OpenPiece == [kind |-> "open", obj |-> NoConfig]
ClosePiece == [kind |-> "close", obj |-> NoConfig]
ObjectPiece(o) == [kind |-> "object", obj |-> o]

\* re.findall(r"\{[\s\S]*\}", raw_output)[-1]: from the first opening brace
\* to the last closing one; <<>> when findall finds nothing
LastBlock(raw_output) ==
  LET opens == {k \in 1..Len(raw_output) : raw_output[k].kind \in {"open", "object"}}
      closes == {k \in 1..Len(raw_output) : raw_output[k].kind \in {"close", "object"}}
  IN IF opens # {} /\ closes # {} /\ Ascending(opens)[1] <= Ascending(closes)[Cardinality(closes)]
       THEN SubSeq(raw_output, Ascending(opens)[1], Ascending(closes)[Cardinality(closes)])
       ELSE <<>>

\* json.loads(last_block) does not raise: the block is one JSON object
Loads(block) == Len(block) = 1 /\ block[1].kind = "object"

\* the parse failing, were an empty config returned for it
ParseFailedEmpty(cfg) == Json({}, {}, <<>>, <<>>, <<>>, <<>>)

\* lines 103-104: the parse failed
ParseFailed(cfg) == cfg

\* parse_instruction lines 92-104, given the stdout of the model
parse_instruction(raw_output, cfg) ==
  IF Loads(LastBlock(raw_output)) THEN LastBlock(raw_output)[1].obj ELSE ParseFailed(cfg)

\* the JSON objects the model returns: any list of labels; the other keys
\* empty or with entries that differ in case; keys lacking; a null value
ModelObjects ==
  {Json(keys, bad, label, rest.friends, rest.hp, rest.emailmap) :
     keys \in {ConfigKeys, {"Label"}, {}},
     bad \in {{}, {"Label"}, {"EmailMap"}},
     label \in Texts({wk, Wk}, EditorListLen),
     rest \in {[friends |-> <<>>, hp |-> <<>>, emailmap |-> <<>>],
               [friends |-> <<ax, Ax>>, hp |-> <<Ax, ax, Ax>>,
                emailmap |-> <<[k |-> Ax, v |-> wk], [k |-> ax, v |-> Wk]>>]}}

\* what the model prints: nothing, text, braces that hold no JSON, one
\* object alone or in text, two objects
ModelOutputs ==
  { <<>>, <<TextPiece>>, <<ClosePiece, OpenPiece>>, <<OpenPiece, TextPiece, ClosePiece>> }
  \cup {<<ObjectPiece(o)>> : o \in ModelObjects}
  \cup {<<TextPiece, ObjectPiece(o), TextPiece>> : o \in ModelObjects}
  \cup {<<ObjectPiece(o), TextPiece, ObjectPiece(o)>> : o \in ModelObjects}
  \cup {<<OpenPiece, ObjectPiece(o)>> : o \in ModelObjects}

\* what is entered at the prompt
Instructions == { <<"E","x","i","t">>, <<"q","u","i","t">>, <<"a","d","d">> }

\* instruction.lower() in ["exit", "quit"]
IsExit(instruction) ==
  InList(Lower(instruction), << <<"e","x","i","t">>, <<"q","u","i","t">> >>)

\* ------------------------------------------------------------------ state
VARIABLES
  msgLabels,     \* mailbox: the labelIds of every message
  arrivalsLeft,  \* mailbox: messages that may still arrive
  remoteLabels,  \* mailbox: the labels, as labels().list returns them
  store,         \* the file emails.csv
  config,        \* the file config.json
  runsLeft,      \* invocations that may still start (-1: any number)
  pc,            \* where the current invocation is
  labels_list,   \* local: the candidate labels
  messages,      \* local: the ids of the batch
  idx,           \* local: position of msg in messages
  full_msg,      \* local: the fetched message (its labelIds)
  category,      \* local
  label_id,      \* local of move_to_label
  rows,          \* local
  df_final,      \* local
  result,        \* what the invocation returned or raised
  fault,         \* history: which call of the invocation raised
  calls,         \* history: label calls and mark-read calls of the invocation,
                 \* each with the message and the category it was made for
  storeAtStart,  \* history: the file when the invocation started
  labelsAtStart  \* history: msgLabels when the invocation started

\* a helper of the pipeline called on its own
VARIABLES
  call,          \* the helper and its argument
  ret            \* what it returned

helperVars == <<call, ret>>

\* an invocation of main_working_1.py, running beside the invocation of
\* main_working_2.py on the same mailbox and the same file emails.csv
VARIABLES
  peerRunsLeft,   \* invocations of main_working_1.py that may still start
  peer_pc,        \* where the invocation is
  peer_messages,  \* local: the ids of the batch
  peer_idx,       \* local: position in the batch
  peer_full_msg,  \* local: the fetched message
  peer_rows,      \* local; a row of this script carries the negated message id
  peer_df,        \* local: df_final
  peer_result     \* what the invocation returned

peerVars ==
  <<peerRunsLeft, peer_pc, peer_messages, peer_idx, peer_full_msg, peer_rows, peer_df,
    peer_result>>

\* the config editor, main of agent_b.py
VARIABLES
  ed_pc,      \* where the editor is: off, prompt, exited, crashed
  ed_config,  \* local: config
  ed_before,  \* history: config when the last instruction was entered
  ed_parsed,  \* history: what parse_instruction returned for it, and whether
              \* from the model output
  ed_event    \* history: how the last instruction ended: saved, crashed

editorVars == <<ed_pc, ed_config, ed_before, ed_parsed, ed_event>>

\* what the invocation of fetch_and_process_emails leaves alone
sideVars == <<helperVars, peerVars, editorVars>>

vars ==
  <<msgLabels, arrivalsLeft, remoteLabels, store, config, runsLeft, pc, labels_list, messages, idx,
    full_msg, category, label_id, rows, df_final, result, fault, calls,
    storeAtStart, labelsAtStart, sideVars>>

pipelineVars ==
  <<msgLabels, arrivalsLeft, remoteLabels, store, config, runsLeft, pc, labels_list, messages, idx,
    full_msg, category, label_id, rows, df_final, result, fault, calls,
    storeAtStart, labelsAtStart>>

mailboxVars == <<msgLabels, arrivalsLeft, remoteLabels>>
localVars == <<labels_list, messages, idx, full_msg, category, label_id, rows, df_final>>
historyVars == <<calls, storeAtStart, labelsAtStart>>

NoResult == [kind |-> "none", count |-> 0]
NoUnread == [kind |-> "no_unread", count |-> 0]
Processed(n) == [kind |-> "processed", count |-> n]
Error == [kind |-> "error", count |-> 0]

\* no helper is called on its own
NoCall == [fn |-> "none", arg |-> <<>>]
NoRet == [fn |-> "none", val |-> <<>>]

HelpersIdle == call = NoCall /\ ret = NoRet

\* main_working_1.py before its invocation, runs of them allowed
PeerIdle(runs) ==
  /\ peerRunsLeft = runs
  /\ peer_pc = "idle"
  /\ peer_messages = <<>>
  /\ peer_idx = 0
  /\ peer_full_msg = [id |-> 0, labelIds |-> {}]
  /\ peer_rows = <<>>
  /\ peer_df = [exists |-> FALSE, columns |-> <<>>, rows |-> <<>>]
  /\ peer_result = NoResult

\* the config editor before it is started
EditorOff ==
  /\ ed_pc = "off"
  /\ ed_config = NoConfig
  /\ ed_before = NoConfig
  /\ ed_parsed = [kind |-> "none", obj |-> NoConfig]
  /\ ed_event = "none"

\* nothing happens beside the invocations of fetch_and_process_emails
SideIdle == HelpersIdle /\ PeerIdle(0) /\ EditorOff

NoMsg == [id |-> 0, labelIds |-> {}]
NoFrame == [exists |-> FALSE, columns |-> <<>>, rows |-> <<>>]

\* the message the loop is at
msg == messages[idx]

Call(op, m, name, id) == [op |-> op, msg |-> m, name |-> name, id |-> id]

\* config.json and the labels of the mailbox before the first run: no
\* config.json; two candidates that differ in case, with or without a label
\* of that name in the mailbox; a candidate that read_csv takes for missing
Setups ==
  { [config |-> NoConfig, labels |-> SystemLabels],
    [config |-> Config(<<wk, Wk>>), labels |-> SystemLabels],
    [config |-> Config(<<wk, Wk>>),
     labels |-> SystemLabels \o << [id |-> "Label_1", name |-> <<"W","K">>] >>],
    [config |-> Config(<<NA>>), labels |-> SystemLabels] }

\* the state before the first invocation, the mailbox holding the unread
\* messages of one of the sets of ids
InitOn(idsets, arriving, setups, files, limit) ==
  /\ \E ids \in idsets : msgLabels = [m \in ids |-> InitialLabelIds(m)]
  /\ arrivalsLeft = arriving
  /\ \E s \in setups : config = s.config /\ remoteLabels = s.labels
  /\ store \in files
  /\ runsLeft = limit
  /\ pc = "idle"
  /\ labels_list = <<>>
  /\ messages = <<>>
  /\ idx = 0
  /\ full_msg = NoMsg
  /\ category = Empty
  /\ label_id = NoId
  /\ rows = <<>>
  /\ df_final = NoFrame
  /\ result = NoResult
  /\ fault = "none"
  /\ calls = <<>>
  /\ storeAtStart = store
  /\ labelsAtStart = msgLabels

\* the same, the mailbox holding the messages 1 to n for an n of sizes
InitWith(sizes, arriving, setups, files, limit) ==
  InitOn({1..n : n \in sizes}, arriving, setups, files, limit)

\* an empty mailbox that receives messages, no file yet, any number of
\* invocations
Init == InitWith({0}, MaxArrivals, Setups, {NoFile}, -1) /\ SideIdle

\* the file an earlier invocation left after processing one message, since
\* deleted from the mailbox
PriorStore ==
  to_csv(DataFrame(<< [msg |-> 0, vals |-> ExtractRow(0, {"INBOX"}, <<"0",".","5">>, Other)] >>,
                   Columns))

\* one invocation on a mailbox that is empty, or holds more unread messages
\* than the list limit, and receives one more
InitBatch ==
  /\ InitWith({0, MaxResults + BatchExtra}, 1,
              {[config |-> Config(<<Wk>>), labels |-> SystemLabels]},
              {NoFile, PriorStore}, 1)
  /\ SideIdle

\* ------------------------------------------------------------------ actions
Stopped == pc \in {"idle", "done", "failed", "interrupted"}

\* where a call of the mailbox API is about to be made
RemotePcs == {"get", "labels_list", "labels_create", "apply", "mark_read"}

\* lines 115-131: a new invocation, up to the loop
StartRun ==
  /\ Stopped
  /\ runsLeft # 0
  /\ runsLeft' = IF runsLeft > 0 THEN runsLeft - 1 ELSE runsLeft
  /\ labels_list' = IF config.exists THEN config.Label ELSE <<>>
  /\ messages' = ListUnread(msgLabels, MaxResults)
  /\ IF messages' = <<>>
       THEN pc' = "done" /\ result' = NoUnread /\ idx' = 0
       ELSE pc' = "get" /\ result' = NoResult /\ idx' = 1
  /\ rows' = <<>>
  /\ full_msg' = NoMsg
  /\ category' = Empty
  /\ label_id' = NoId
  /\ df_final' = NoFrame
  /\ fault' = "none"
  /\ calls' = <<>>
  /\ storeAtStart' = store
  /\ labelsAtStart' = msgLabels
  /\ UNCHANGED <<mailboxVars, store, config>>
  /\ UNCHANGED sideVars

\* line 134: messages().get
GetMessage ==
  /\ pc = "get"
  /\ full_msg' = [id |-> msg, labelIds |-> msgLabels[msg]]
  /\ pc' = "categorize"
  /\ UNCHANGED <<mailboxVars, store, config, runsLeft, labels_list, messages, idx, category,
                 label_id, rows, df_final, result, fault, historyVars>>
  /\ UNCHANGED sideVars

\* move_to_label called whatever the category
AlwaysLabel(cat) == "labels_list"

\* line 166: whether move_to_label is called
AfterCategorize(cat) == IF cat # Other THEN "labels_list" ELSE "mark_read"

\* lines 163-166: categorize_email and the test on its result
Categorize ==
  /\ pc = "categorize"
  /\ "headers" \in DOMAIN Mailbox(msg)
  /\ \E outcome \in ClassifierOutcomes(labels_list) :
       category' = categorize_email(outcome, labels_list)
  /\ pc' = AfterCategorize(category')
  /\ UNCHANGED <<mailboxVars, store, config, runsLeft, labels_list, messages, idx, full_msg,
                 label_id, rows, df_final, result, fault, historyVars>>
  /\ UNCHANGED sideVars

\* lines 102-107: labels().list and the search for the label
LabelsList ==
  /\ pc = "labels_list"
  /\ label_id' = FindLabel(remoteLabels, category)
  /\ calls' = Append(calls, Call("labels.list", msg, category, NoId))
  /\ pc' = IF label_id' = NoId THEN "labels_create" ELSE "apply"
  /\ UNCHANGED <<mailboxVars, store, config, runsLeft, labels_list, messages, idx, full_msg,
                 category, rows, df_final, result, fault, storeAtStart, labelsAtStart>>
  /\ UNCHANGED sideVars

\* the id the mailbox gives to the next created label
FreshId == LabelIdPool[Len(remoteLabels) - Len(SystemLabels) + 1]

\* lines 108-110: labels().create
LabelsCreate ==
  /\ pc = "labels_create"
  /\ remoteLabels' = Append(remoteLabels, [id |-> FreshId, name |-> category])
  /\ label_id' = FreshId
  /\ calls' = Append(calls, Call("labels.create", msg, category, FreshId))
  /\ pc' = "apply"
  /\ UNCHANGED <<msgLabels, arrivalsLeft, store, config, runsLeft, labels_list, messages, idx, full_msg,
                 category, rows, df_final, result, fault, storeAtStart, labelsAtStart>>
  /\ UNCHANGED sideVars

\* line 112: messages().modify with addLabelIds
ApplyLabel ==
  /\ pc = "apply"
  /\ msgLabels' = [msgLabels EXCEPT ![msg] = Modify(@, {label_id}, {})]
  /\ calls' = Append(calls, Call("modify.add", msg, category, label_id))
  /\ pc' = "mark_read"
  /\ UNCHANGED <<arrivalsLeft, remoteLabels, store, config, runsLeft, labels_list, messages, idx, full_msg,
                 category, label_id, rows, df_final, result, fault, storeAtStart,
                 labelsAtStart>>
  /\ UNCHANGED sideVars

\* lines 169-189: the row is appended to rows, then messages().modify removes
\* UNREAD; the loop goes on, or ends
MarkRead ==
  /\ pc = "mark_read"
  /\ HasInternalDate(msg)
  /\ \E t \in TimeTakenValues :
       rows' = Append(rows, [msg |-> msg,
                             vals |-> ExtractRow(msg, full_msg.labelIds, t, category)])
  /\ msgLabels' = [msgLabels EXCEPT ![msg] = Modify(@, {}, {"UNREAD"})]
  /\ calls' = Append(calls, Call("modify.remove", msg, category, "UNREAD"))
  /\ IF idx < Len(messages)
       THEN idx' = idx + 1 /\ pc' = "get"
       ELSE idx' = idx /\ pc' = "exists"
  /\ UNCHANGED <<arrivalsLeft, remoteLabels, store, config, runsLeft, labels_list, messages, full_msg,
                 category, label_id, df_final, result, fault, storeAtStart, labelsAtStart>>
  /\ UNCHANGED sideVars

\* lines 192-201: the new frame, joined to the file's frame when the file exists
ReadStore ==
  /\ pc = "exists"
  /\ df_final' = IF store.exists
                   THEN concat(read_csv(store), DataFrame(rows, Columns))
                   ELSE DataFrame(rows, Columns)
  /\ pc' = "to_csv"
  /\ UNCHANGED <<mailboxVars, store, config, runsLeft, labels_list, messages, idx, full_msg,
                 category, label_id, rows, result, fault, historyVars>>
  /\ UNCHANGED sideVars

\* lines 203-204: the file is written and the summary returned
WriteStore ==
  /\ pc = "to_csv"
  /\ store' = to_csv(df_final)
  /\ result' = Processed(Len(rows))
  /\ pc' = "done"
  /\ UNCHANGED <<mailboxVars, config, runsLeft, labels_list, messages, idx, full_msg,
                 category, label_id, rows, df_final, fault, historyVars>>
  /\ UNCHANGED sideVars

\* the process ends before the loop is over: its locals are gone (the batch
\* and the position in it are kept, to tell where the invocation stopped)
Exit ==
  /\ full_msg' = NoMsg
  /\ category' = Empty
  /\ label_id' = NoId
  /\ rows' = <<>>
  /\ df_final' = NoFrame
  /\ UNCHANGED <<labels_list, messages, idx>>

\* a call of the mailbox API raises: nothing in the loop catches it
RemoteFaultOutcome == [pc |-> "failed", result |-> Error]

RemoteFault ==
  /\ pc \in RemotePcs
  /\ fault' = "remote"
  /\ pc' = RemoteFaultOutcome.pc
  /\ result' = RemoteFaultOutcome.result
  /\ Exit
  /\ UNCHANGED <<mailboxVars, store, config, runsLeft, historyVars>>
  /\ UNCHANGED sideVars

\* line 135, full_msg["payload"]["headers"], or line 174,
\* int(full_msg["internalDate"]), raises KeyError: nothing catches it
ExtractFault ==
  /\ \/ pc = "categorize" /\ "headers" \notin DOMAIN Mailbox(msg)
     \/ pc = "mark_read" /\ ~HasInternalDate(msg)
  /\ fault' = "extract"
  /\ pc' = "failed"
  /\ result' = Error
  /\ Exit
  /\ UNCHANGED <<mailboxVars, store, config, runsLeft, historyVars>>
  /\ UNCHANGED sideVars

\* read_csv or to_csv raising, were it caught and the summary returned
StoreFaultSwallowed ==
  [pc |-> "done", result |-> [kind |-> "processed", count |-> Len(messages)]]

\* read_csv or to_csv raises: nothing catches it
StoreFaultOutcome == [pc |-> "failed", result |-> Error]

StoreFault ==
  /\ \/ pc = "exists" /\ store.exists
     \/ pc = "to_csv"
  /\ fault' = "store"
  /\ pc' = StoreFaultOutcome.pc
  /\ result' = StoreFaultOutcome.result
  /\ Exit
  /\ UNCHANGED <<mailboxVars, store, config, runsLeft, historyVars>>
  /\ UNCHANGED sideVars

\* an unread message arrives in the mailbox (seen by the next messages().list)
Arrive ==
  /\ Stopped
  /\ arrivalsLeft > 0
  /\ arrivalsLeft' = arrivalsLeft - 1
  /\ LET ids == DOMAIN msgLabels
         new == IF ids = {} THEN 1 ELSE (CHOOSE m \in ids : \A o \in ids : o <= m) + 1
     IN msgLabels' = [m \in ids \cup {new} |->
                        IF m \in ids THEN msgLabels[m] ELSE InitialLabelIds(m)]
  /\ UNCHANGED <<remoteLabels, store, config, runsLeft, pc, localVars, result, fault,
                 historyVars>>
  /\ UNCHANGED sideVars

\* the invocation is killed between two steps
Interrupt ==
  /\ ~Stopped
  /\ pc' = "interrupted"
  /\ Exit
  /\ UNCHANGED <<mailboxVars, store, config, runsLeft, result, fault, historyVars>>
  /\ UNCHANGED sideVars

Next ==
  \/ StartRun
  \/ GetMessage
  \/ Categorize
  \/ LabelsList
  \/ LabelsCreate
  \/ ApplyLabel
  \/ MarkRead
  \/ ReadStore
  \/ WriteStore
  \/ RemoteFault
  \/ StoreFault
  \/ Arrive
  \/ Interrupt

Spec == Init /\ [][Next]_vars

SpecBatch == InitBatch /\ [][Next]_vars

\* ------------------------------------------------------------------ odd messages
\* The pipeline on a mailbox that holds messages with missing or malformed
\* fields.

\* one or two of the odd messages, unread; one more message arrives
InitPayload ==
  /\ InitOn({{a, b} : a, b \in 21..25}, PayloadArrivals,
            {[config |-> Config(<<Wk>>), labels |-> SystemLabels]}, {NoFile}, PayloadRuns)
  /\ SideIdle

NextPayload ==
  \/ Next
  \/ ExtractFault

SpecPayload == InitPayload /\ [][NextPayload]_vars

\* ------------------------------------------------------------------ both scripts
\* fetch_and_process_emails of main_working_1.py, one remote call or one file
\* access per step, interleaved with the steps of main_working_2.py.  Its
\* failures are not modelled.

\* main_working_1.py lines 85-93: a new invocation, up to the loop
PeerStart ==
  /\ peer_pc \in {"idle", "done"}
  /\ peerRunsLeft # 0
  /\ peerRunsLeft' = IF peerRunsLeft > 0 THEN peerRunsLeft - 1 ELSE peerRunsLeft
  /\ peer_messages' = ListUnread(msgLabels, MaxResults)
  /\ IF peer_messages' = <<>>
       THEN peer_pc' = "done" /\ peer_result' = NoUnread /\ peer_idx' = 0
       ELSE peer_pc' = "get" /\ peer_result' = NoResult /\ peer_idx' = 1
  /\ peer_rows' = <<>>
  /\ peer_full_msg' = NoMsg
  /\ peer_df' = NoFrame
  /\ UNCHANGED <<pipelineVars, helperVars, editorVars>>

\* main_working_1.py line 96: messages().get
PeerGet ==
  /\ peer_pc = "get"
  /\ peer_full_msg' = [id |-> peer_messages[peer_idx],
                       labelIds |-> msgLabels[peer_messages[peer_idx]]]
  /\ peer_pc' = "mark_read"
  /\ UNCHANGED <<pipelineVars, helperVars, editorVars, peerRunsLeft, peer_messages, peer_idx, peer_rows,
                 peer_df, peer_result>>

\* main_working_1.py lines 97-153: the row is made and appended to rows, then
\* messages().modify removes UNREAD
PeerMarkRead ==
  /\ peer_pc = "mark_read"
  /\ \E t \in TimeTakenValues, outcome \in SummaryOutcomes :
       peer_rows' = Append(peer_rows,
                           [msg |-> 0 - peer_full_msg.id,
                            vals |-> ExtractRow_1(peer_full_msg.id, peer_full_msg.labelIds,
                                                  t, outcome)])
  /\ msgLabels' = [msgLabels EXCEPT ![peer_full_msg.id] = Modify(@, {}, {"UNREAD"})]
  /\ IF peer_idx < Len(peer_messages)
       THEN peer_idx' = peer_idx + 1 /\ peer_pc' = "get"
       ELSE peer_idx' = peer_idx /\ peer_pc' = "exists"
  /\ UNCHANGED <<arrivalsLeft, remoteLabels, store, config, runsLeft, pc, localVars, result,
                 fault, historyVars, helperVars, editorVars, peerRunsLeft, peer_messages,
                 peer_full_msg, peer_df, peer_result>>

\* main_working_1.py lines 156-166
PeerReadStore ==
  /\ peer_pc = "exists"
  /\ peer_df' = IF store.exists
                  THEN concat(read_csv(store), DataFrame(peer_rows, Columns_1))
                  ELSE DataFrame(peer_rows, Columns_1)
  /\ peer_pc' = "to_csv"
  /\ UNCHANGED <<pipelineVars, helperVars, editorVars, peerRunsLeft, peer_messages, peer_idx,
                 peer_full_msg, peer_rows, peer_result>>

\* main_working_1.py lines 168-169
PeerWriteStore ==
  /\ peer_pc = "to_csv"
  /\ store' = to_csv(peer_df)
  /\ peer_result' = Processed(Len(peer_rows))
  /\ peer_pc' = "done"
  /\ UNCHANGED <<mailboxVars, config, runsLeft, pc, localVars, result, fault, historyVars,
                 helperVars, editorVars, peerRunsLeft, peer_messages, peer_idx, peer_full_msg,
                 peer_rows, peer_df>>

\* one invocation of each script, in any interleaving
InitPeers ==
  /\ InitWith({PeerMsgs}, 1, {[config |-> Config(<<Wk>>), labels |-> SystemLabels]},
              {NoFile}, 1)
  /\ HelpersIdle
  /\ PeerIdle(1)
  /\ EditorOff

NextPeers ==
  \/ Next
  \/ PeerStart
  \/ PeerGet
  \/ PeerMarkRead
  \/ PeerReadStore
  \/ PeerWriteStore

SpecPeers == InitPeers /\ [][NextPeers]_vars

\* ------------------------------------------------------------------ config editor
\* line 108: load_config opens config.json (CONFIG_FILE is not empty)
EditorLoad ==
  /\ ed_pc \in {"off", "exited", "crashed"}
  /\ IF config.exists
       THEN ed_pc' = "prompt" /\ ed_config' = config
       ELSE ed_pc' = "crashed" /\ ed_config' = NoConfig
  /\ ed_before' = NoConfig
  /\ ed_parsed' = [kind |-> "none", obj |-> NoConfig]
  /\ ed_event' = "none"
  /\ UNCHANGED <<pipelineVars, helperVars, peerVars>>

\* lines 111-113
EditorExit ==
  /\ ed_pc = "prompt"
  /\ \E instruction \in Instructions : IsExit(instruction)
  /\ ed_pc' = "exited"
  /\ UNCHANGED <<pipelineVars, helperVars, peerVars, ed_config, ed_before, ed_parsed, ed_event>>

\* lines 111-119: an instruction is parsed by the model, the result cleaned
\* and saved; an exception of the model call or of the cleaning ends the
\* editor before anything is saved
EditorInstruction ==
  /\ ed_pc = "prompt"
  /\ \E instruction \in Instructions : ~IsExit(instruction)
  /\ ed_before' = ed_config
  /\ \E outcome \in {Raised} \cup {Stdout(o) : o \in ModelOutputs} :
       IF outcome.raised
         THEN /\ ed_parsed' = [kind |-> "raised", obj |-> NoConfig]
              /\ ed_event' = "crashed" /\ ed_pc' = "crashed"
              /\ UNCHANGED <<config, ed_config>>
         ELSE LET updated_config == parse_instruction(outcome.stdout, ed_config)
              IN /\ ed_parsed' = [kind |-> IF Loads(LastBlock(outcome.stdout))
                                             THEN "parsed" ELSE "failed",
                                  obj |-> updated_config]
                 /\ IF CleanRaises(updated_config)
                      THEN /\ ed_event' = "crashed" /\ ed_pc' = "crashed"
                           /\ UNCHANGED <<config, ed_config>>
                      ELSE /\ config' = normalize_case(clean_duplicates(updated_config))
                           /\ ed_config' = config'
                           /\ ed_event' = "saved" /\ ed_pc' = "prompt"
  /\ UNCHANGED <<msgLabels, arrivalsLeft, remoteLabels, store, runsLeft, pc, localVars, result,
                 fault, historyVars, helperVars, peerVars>>

\* config.json before the editor is started: absent, written for the
\* pipeline alone, or with entries that differ in case
EditorFiles ==
  { NoConfig, Config(<<wk, Wk>>),
    Json(ConfigKeys, {}, <<Wk, wk>>, <<ax>>, <<ax, Ax>>, <<[k |-> Ax, v |-> Wk]>>) }

InitEditor ==
  /\ InitWith({0}, 0, {[config |-> f, labels |-> SystemLabels] : f \in EditorFiles},
              {NoFile}, 0)
  /\ HelpersIdle
  /\ PeerIdle(0)
  /\ EditorOff

NextEditor ==
  \/ EditorLoad
  \/ EditorExit
  \/ EditorInstruction

SpecEditor == InitEditor /\ [][NextEditor]_vars

\* ------------------------------------------------------------------ helpers
\* The helpers of the extraction, each called on its own with every argument
\* of a bounded set; no invocation of the pipeline runs.

\* the characters of the subjects
SubjectChars == {"F", "f", "W", "w", "d", ":", "x"}

\* the label ids of the lists get_section is called with
SectionIds ==
  {"CATEGORY_SOCIAL", "CATEGORY_PROMOTIONS", "CATEGORY_UPDATES", "CATEGORY_FORUMS",
   "CATEGORY_PERSONAL", "INBOX"}

\* the characters of the header values parse_email is called with
HeaderChars == {"a", " ", "\"", "<", ">", "\n"}

\* the characters of the filenames
FilenameChars == {"a", ",", " "}

\* payloads without parts, or with parts of any filenames, the empty one too
AttachmentPayloads ==
  {[headers |-> <<>>, body |-> NoData, hasParts |-> FALSE, parts |-> <<>>]}
  \cup {[headers |-> <<>>, body |-> NoData, hasParts |-> TRUE,
         parts |-> [k \in 1..Len(names) |-> Part("application/pdf", names[k], NoData)]] :
          names \in Texts(Texts(FilenameChars, FilenameLen), PartsLen)}

NoPipeline ==
  InitWith({0}, 0, {[config |-> NoConfig, labels |-> SystemLabels]}, {NoFile}, 0)

InitHelpers ==
  /\ NoPipeline
  /\ PeerIdle(0)
  /\ EditorOff
  /\ ret = NoRet
  /\ \/ \E subject \in Texts(SubjectChars, SubjectLen) :
          call = [fn |-> "Forwarded", arg |-> subject]
     \/ \E label_ids \in Texts(SectionIds, LabelIdsLen) :
          call = [fn |-> "get_section", arg |-> label_ids]
     \/ \E full \in Texts(HeaderChars, HeaderLen) :
          call = [fn |-> "parse_email", arg |-> full]
     \/ \E payload \in AttachmentPayloads :
          call = [fn |-> "Attachments", arg |-> payload]

\* line 146 of main_working_2.py and line 115 of main_working_1.py
CallForwarded ==
  /\ call.fn = "Forwarded"
  /\ ret = NoRet
  /\ ret' = [fn |-> "Forwarded",
             val |-> [main_working_2 |-> Forwarded(call.arg),
                      main_working_1 |-> Forwarded_1(call.arg)]]
  /\ UNCHANGED <<call, pipelineVars, peerVars, editorVars>>

\* line 160
CallGetSection ==
  /\ call.fn = "get_section"
  /\ ret = NoRet
  /\ ret' = [fn |-> "get_section", val |-> get_section(call.arg)]
  /\ UNCHANGED <<call, pipelineVars, peerVars, editorVars>>

\* lines 140 and 142
CallParseEmail ==
  /\ call.fn = "parse_email"
  /\ ret = NoRet
  /\ ret' = [fn |-> "parse_email", val |-> parse_email(call.arg)]
  /\ UNCHANGED <<call, pipelineVars, peerVars, editorVars>>

\* lines 149-157
CallAttachments ==
  /\ call.fn = "Attachments"
  /\ ret = NoRet
  /\ ret' = [fn |-> "Attachments", val |-> Attachments(call.arg)]
  /\ UNCHANGED <<call, pipelineVars, peerVars, editorVars>>

NextHelpers ==
  \/ CallForwarded
  \/ CallAttachments
  \/ CallParseEmail
  \/ CallGetSection

SpecHelpers == InitHelpers /\ [][NextHelpers]_vars

\* ------------------------------------------------------------------ claims
\* the file holds a row made from message m
HasRow(file, m) == \E k \in 1..Len(file.rows) : file.rows[k].msg = m

\* message m no longer carries UNREAD
IsRead(m) == "UNREAD" \notin msgLabels[m]

\* the candidate labels of config.json, and "Other"
Allowed == {config.Label[k] : k \in 1..Len(config.Label)} \cup {Other}

\* the positions of the calls of kind op made for message m in this invocation
CallsOf(op, m) == {k \in 1..Len(calls) : calls[k].op = op /\ calls[k].msg = m}

LabelOps == {"labels.list", "labels.create", "modify.add"}

\* C1: a message is marked read only after its record is in the record store:
\* in no state is a message read while the store has no row for it.
C1_ReadOnlyAfterPersisted ==
  \A m \in DOMAIN msgLabels : IsRead(m) => HasRow(store, m)

\* C2: when a call of the mailbox API fails for one message, the invocation
\* still ends with every other message of the batch persisted and marked read.
C2_FailureIsolated ==
  (Stopped /\ pc # "interrupted" /\ fault = "remote") =>
    \A k \in 1..Len(messages) :
      k # idx => IsRead(messages[k]) /\ HasRow(store, messages[k])

\* C3: when reading or writing the record store fails, the invocation ends
\* with an error and not with the summary, and no message is marked read
\* after the failure.
C3_StoreFaultIsFatal ==
  /\ [](fault = "store" => pc = "failed" /\ result = Error)
  /\ [][fault = "store" =>
          \A m \in DOMAIN msgLabels : ~IsRead(m) => "UNREAD" \in msgLabels'[m]]_vars

C3_Witness ==
  /\ fault = "store"
  /\ pc = "failed"
  /\ store.exists
  /\ \A k \in 1..Len(messages) : CallsOf("modify.remove", messages[k]) # {}

\* C4: after an interruption every message of the batch is still unread or
\* has a row in the record store.
C4_InterruptLosesNothing ==
  pc = "interrupted" =>
    \A k \in 1..Len(messages) : ~IsRead(messages[k]) \/ HasRow(store, messages[k])

\* C5: the category categorize_email returns is a candidate label or "Other",
\* and so is the Category of every row of the record store.
C5_CategoryIsCandidateOrOther ==
  /\ pc \in {"labels_list", "labels_create", "apply", "mark_read"} => category \in Allowed
  /\ \A k \in 1..Len(rows) : rows[k].vals[12] \in Allowed
  /\ \A k \in 1..Len(store.rows) : store.rows[k].cells["Category"] \in Allowed

\* C6: within one invocation, label names that differ only in case resolve to
\* one label id, at most one labels.create is issued per name, and the mailbox
\* never holds two labels whose names are equal case-insensitively.
C6_OneLabelPerName ==
  LET adds == {k \in 1..Len(calls) : calls[k].op = "modify.add"}
      creates == {k \in 1..Len(calls) : calls[k].op = "labels.create"}
  IN /\ \A j, k \in adds :
          Lower(calls[j].name) = Lower(calls[k].name) => calls[j].id = calls[k].id
     /\ \A j, k \in creates :
          Lower(calls[j].name) = Lower(calls[k].name) => j = k
     /\ \A j, k \in 1..Len(remoteLabels) :
          Lower(remoteLabels[j].name) = Lower(remoteLabels[k].name) => j = k

C6_Witness ==
  /\ \E j, k \in 1..Len(calls) :
       /\ calls[j].op = "modify.add" /\ calls[k].op = "modify.add"
       /\ calls[j].name = wk /\ calls[k].name = Wk
  /\ \E j \in 1..Len(calls) : calls[j].op = "labels.create"

\* C7: a message processed with a category other than "Other" carries
\* exactly the labels it had before, plus the label of the category, minus
\* UNREAD; a message the invocation has not reached carries what it had.
C7_LabelIsAdded ==
  \A m \in DOMAIN labelsAtStart :
    LET done == CallsOf("modify.remove", m)
    IN IF done # {}
         THEN LET cat == calls[CHOOSE k \in done : TRUE].name
                  added == IF cat = Other THEN {} ELSE {FindLabel(remoteLabels, cat)}
              IN msgLabels[m] = (labelsAtStart[m] \cup added) \ {"UNREAD"}
         ELSE (\A k \in 1..Len(calls) : calls[k].msg # m) => msgLabels[m] = labelsAtStart[m]

C7_Witness ==
  \E k \in 1..Len(rows) :
    /\ rows[k].vals[12] # Other
    /\ IsRead(rows[k].msg)
    /\ "INBOX" \in msgLabels[rows[k].msg]
    /\ msgLabels[rows[k].msg] \ labelsAtStart[rows[k].msg] # {}
    /\ \E m \in DOMAIN labelsAtStart : m # rows[k].msg /\ "UNREAD" \in labelsAtStart[m]

\* C8: a completed invocation leaves the M rows the file had unchanged and in
\* order, followed by its N records in processing order: M+N rows; without a
\* file, exactly its N records.
C8_AppendKeepsRows ==
  (pc = "done" /\ result.kind = "processed") =>
    LET new == DataFrame(rows, Columns).rows
        M == Len(storeAtStart.rows)
    IN /\ Len(store.rows) = M + Len(new)
       /\ \A k \in 1..M : store.rows[k] = storeAtStart.rows[k]
       /\ \A k \in 1..Len(new) : store.rows[M + k] = new[k]

\* C9: no label call is issued for a message whose category is "Other", and
\* the message is still marked read and gets its row with Category "Other";
\* for any other category the label is listed and applied before the message
\* is marked read; a completed invocation has written every such row.
C9_OtherSkipsLabel ==
  /\ (pc = "mark_read" /\ category = Other) => \A k \in 1..Len(calls) : calls[k].msg # msg
  /\ \A c \in 1..Len(calls) :
       calls[c].op = "modify.remove" =>
         LET m == calls[c].msg
         IN /\ IsRead(m)
            /\ calls[c].name = Other =>
                 \A k \in 1..Len(calls) : calls[k].msg = m => k = c
            /\ calls[c].name # Other =>
                 \E a, b \in 1..(c - 1) :
                   /\ a < b
                   /\ calls[a] = Call("labels.list", m, calls[c].name, NoId)
                   /\ calls[b].op = "modify.add" /\ calls[b].msg = m
                   /\ calls[b].name = calls[c].name
                   /\ calls[b].id \in msgLabels[m]
                   /\ calls[b].id = FindLabel(remoteLabels, calls[c].name)
  /\ \A k \in 1..Len(rows) :
       \E c \in 1..Len(calls) :
         calls[c] = Call("modify.remove", rows[k].msg, rows[k].vals[12], "UNREAD")
  /\ (pc = "done" /\ result.kind = "processed") =>
       \A c \in 1..Len(calls) :
         calls[c].op = "modify.remove" =>
           \E j \in (Len(storeAtStart.rows) + 1)..Len(store.rows) :
             /\ store.rows[j].msg = calls[c].msg
             /\ store.rows[j].cells["Category"] = calls[c].name

C9_Witness ==
  /\ pc = "done"
  /\ result.kind = "processed"
  /\ \E j, k \in 1..Len(rows) : rows[j].vals[12] = Other /\ rows[k].vals[12] \notin {Other}

\* C10: an invocation takes at most 10 unread messages; it reports that there
\* are none, and then has touched no message and no file, or it reports a
\* count, which is the number of rows it appended, the number of messages it
\* marked read and the size of the batch, each message giving one row.
C10_OnePassCounted ==
  /\ Len(messages) <= MaxResults
  /\ \A m \in DOMAIN labelsAtStart : Cardinality(CallsOf("modify.remove", m)) <= 1
  /\ (pc = "done" /\ result.kind = "no_unread") =>
       /\ \A m \in DOMAIN labelsAtStart : "UNREAD" \notin labelsAtStart[m]
       /\ store = storeAtStart
       /\ \A m \in DOMAIN labelsAtStart : msgLabels[m] = labelsAtStart[m]
       /\ calls = <<>>
  /\ (pc = "done" /\ result.kind = "processed") =>
       /\ result.count = Len(store.rows) - Len(storeAtStart.rows)
       /\ result.count = Cardinality({m \in DOMAIN labelsAtStart :
                                        "UNREAD" \in labelsAtStart[m] /\ IsRead(m)})
       /\ result.count = Len(messages)
       /\ \A k \in 1..Len(messages) :
            Cardinality({j \in (Len(storeAtStart.rows) + 1)..Len(store.rows) :
                           store.rows[j].msg = messages[k]}) = 1

C10_Witness ==
  /\ pc = "done"
  /\ result = Processed(MaxResults)
  /\ storeAtStart.exists
  /\ \E m \in DOMAIN msgLabels : ~IsRead(m)

C10_WitnessNone ==
  pc = "done" /\ result = NoUnread

\* the text of subject at k is "Fwd" or "FW" in any letter case, then a colon
FwdColonAt(subject, k) ==
  \E word \in {<<"f","w","d">>, <<"f","w">>} :
    /\ k + Len(word) <= Len(subject)
    /\ Lower(SubSeq(subject, k, k + Len(word) - 1)) = word
    /\ subject[k + Len(word)] = ":"

\* position k of subject is the start of a word
WordStartsAt(subject, k) == k = 1 \/ subject[k - 1] \notin WordChars

\* C11: Forwarded is "Yes" exactly when the subject contains, in any letter
\* case and starting at a word boundary, "Fwd" or "FW" followed by a colon;
\* this for the forwarded check of both pipeline scripts.
C11_ForwardedIsWordMatch ==
  ret.fn = "Forwarded" =>
    \A script \in {"main_working_2", "main_working_1"} :
      (ret.val[script] = Yes) <=>
        \E k \in 1..Len(call.arg) : WordStartsAt(call.arg, k) /\ FwdColonAt(call.arg, k)

\* C11 for the script main_working_1.py alone
C11_ForwardedIsWordMatch_1 ==
  ret.fn = "Forwarded" =>
    ((ret.val["main_working_1"] = Yes) <=>
       \E k \in 1..Len(call.arg) : WordStartsAt(call.arg, k) /\ FwdColonAt(call.arg, k))

\* the sections with their identifiers, first priority first
SectionPriority ==
  << [id |-> "CATEGORY_SOCIAL", section |-> <<"S","o","c","i","a","l">>],
     [id |-> "CATEGORY_PROMOTIONS", section |-> <<"P","r","o","m","o","t","i","o","n","s">>],
     [id |-> "CATEGORY_UPDATES", section |-> <<"U","p","d","a","t","e","s">>],
     [id |-> "CATEGORY_FORUMS", section |-> <<"F","o","r","u","m","s">>] >>

\* C12: get_section returns the first of Social, Promotions, Updates, Forums
\* whose identifier is among the label ids, whatever their order in the list,
\* and Primary when none is.
C12_SectionByPriority ==
  ret.fn = "get_section" =>
    LET ids == {call.arg[k] : k \in 1..Len(call.arg)}
        present == {p \in 1..Len(SectionPriority) : SectionPriority[p].id \in ids}
    IN ret.val = IF present = {} THEN <<"P","r","i","m","a","r","y">>
                 ELSE SectionPriority[CHOOSE p \in present : \A q \in present : p <= q].section

C12_Witness ==
  /\ ret.fn = "get_section"
  /\ call.arg = <<"INBOX", "CATEGORY_FORUMS", "CATEGORY_UPDATES", "CATEGORY_PROMOTIONS">>
  /\ ret.val = <<"P","r","o","m","o","t","i","o","n","s">>

\* t holds none of the characters of chars
Without(t, chars) == \A k \in 1..Len(t) : t[k] \notin chars

C13_WitnessNoBrackets ==
  /\ ret.fn = "parse_email"
  /\ call.arg = <<" ", ">", "a", "<", " ">>
  /\ ret.val = [name |-> Empty, email |-> <<">", "a", "<">>]

\* both invocations have ended with their summary
BothDone ==
  /\ pc = "done" /\ result.kind = "processed"
  /\ peer_pc = "done" /\ peer_result.kind = "processed"

\* C14: no row of the record store is ever deleted or moved, also when an
\* invocation of each script runs at the same time, and when both have ended
\* the store holds every row that either of them appended.
C14_NoRowLost ==
  /\ [][ /\ Len(store'.rows) >= Len(store.rows)
         /\ \A k \in 1..Len(store.rows) : store'.rows[k].msg = store.rows[k].msg ]_vars
  /\ [](BothDone =>
         /\ \A k \in 1..Len(rows) : HasRow(store, rows[k].msg)
         /\ \A k \in 1..Len(peer_rows) : HasRow(store, peer_rows[k].msg))

\* the second clause of C14 alone
C14_BothKept ==
  BothDone =>
    /\ \A k \in 1..Len(rows) : HasRow(store, rows[k].msg)
    /\ \A k \in 1..Len(peer_rows) : HasRow(store, peer_rows[k].msg)

\* the payload of message m has no header of that name
NoHeader(m, name) ==
  \A k \in 1..Len(Mailbox(m).headers) : Mailbox(m).headers[k].name # name

\* the rows made so far hold the defaults for what their messages lack
DefaultsSubstituted ==
  \A k \in 1..Len(rows) :
    LET m == rows[k].msg
        v == rows[k].vals
    IN /\ NoHeader(m, "Subject") => v[5] = NoSubject
       /\ NoHeader(m, "From") => v[1] = Empty /\ v[2] = UnknownSender
       /\ NoHeader(m, "To") => v[3] = Empty
       /\ m \in 21..23 => v[6] = Empty

\* C15: a message with missing or malformed payload fields never fails the
\* invocation: no invocation ends in the extraction, the row of the message
\* holds the defaults, and a completed invocation has persisted and marked
\* read every message of its batch.
C15_ExtractionNeverFails ==
  /\ fault # "extract"
  /\ DefaultsSubstituted
  /\ (pc = "done" /\ result.kind = "processed") =>
       \A k \in 1..Len(messages) : IsRead(messages[k]) /\ HasRow(store, messages[k])

\* the part of C15 that holds: messages 21 to 23 go through with defaults
C15_DefaultsOnly ==
  /\ DefaultsSubstituted
  /\ (pc = "done" /\ result.kind = "processed") =>
       \A k \in 1..Len(messages) : IsRead(messages[k]) /\ HasRow(store, messages[k])

C15_DefaultsReached ==
  /\ pc = "done" /\ result = Processed(2)
  /\ HasRow(store, 21) /\ HasRow(store, 22)

\* C16: whatever invocations of the two scripts have run, the record store
\* has the twelve columns of the schema, in their order, and every row has a
\* value for exactly these columns.
C16_FixedSchema ==
  store.exists =>
    /\ store.columns = Columns
    /\ \A k \in 1..Len(store.rows) : DOMAIN store.rows[k].cells = ColumnSet(Columns)

\* C16 for the invocations of main_working_2.py alone
C16_FixedSchema_2 ==
  (store.exists /\ peer_pc = "idle") =>
    /\ store.columns = Columns
    /\ \A k \in 1..Len(store.rows) : DOMAIN store.rows[k].cells = ColumnSet(Columns)

\* the texts of a list, sep between each two of them
RECURSIVE Joined(_, _)
Joined(texts, sep) ==
  IF texts = <<>> THEN <<>>
  ELSE IF Len(texts) = 1 THEN texts[1]
  ELSE texts[1] \o sep \o Joined(Tail(texts), sep)

\* the non-empty filenames of the parts of a payload, in part order
Filenames(payload) ==
  LET parts == IF payload.hasParts THEN payload.parts ELSE <<>>
      named == SelectSeq(parts, LAMBDA part : part.filename # <<>>)
  IN [k \in 1..Len(named) |-> named[k].filename]

\* C17: the attachment flag is "Yes" exactly when a part of the payload has a
\* non-empty filename, and the attachment names are these filenames, each in
\* full and in part order, joined by ", " with no separator at the end.
C17_AttachmentNamesJoined ==
  ret.fn = "Attachments" =>
    /\ (ret.val.attachment = Yes) <=> Filenames(call.arg) # <<>>
    /\ ret.val.attachment \in {Yes, No}
    /\ ret.val.names = Joined(Filenames(call.arg), <<",", " ">>)

\* the flag of C17 alone
C17_FlagOnly ==
  ret.fn = "Attachments" =>
    /\ (ret.val.attachment = Yes) <=> Filenames(call.arg) # <<>>
    /\ ret.val.attachment \in {Yes, No}

\* no two entries of lst are equal case-insensitively
CaseDistinct(lst) ==
  \A j, k \in 1..Len(lst) : Lower(lst[j]) = Lower(lst[k]) => j = k

\* every entry of lst is spelled as the last entry of src that equals it
\* case-insensitively
LastSpellings(lst, src) ==
  \A k \in 1..Len(lst) :
    \E j \in 1..Len(src) :
      /\ src[j] = lst[k]
      /\ \A i \in (j + 1)..Len(src) : Lower(src[i]) # Lower(lst[k])

\* the saved config has the four keys, lists without entries equal
\* case-insensitively, and lower-case EmailMap keys
SavedClean ==
  /\ ConfigKeys \subseteq config.keys
  /\ \A key \in ListKeys : CaseDistinct(config[key])
  /\ \A k \in 1..Len(config.EmailMap) : Lower(config.EmailMap[k].k) = config.EmailMap[k].k

\* C18: after an instruction the editor has handled, whatever JSON object the
\* model returned, the saved config has the keys Label, Friends,
\* HighPriorityEmails and EmailMap, no list holds two entries equal
\* case-insensitively, each entry is the last spelling of it in the list the
\* model returned, and the EmailMap keys are lower-case.
C18_SavedConfigNormalized ==
  ed_event = "saved" =>
    /\ SavedClean
    /\ \A key \in ListKeys : LastSpellings(config[key], ed_parsed.obj[key])

\* C18 without the spelling that is kept
C18_SavedClean ==
  ed_event = "saved" => SavedClean

\* C18 for the instructions that end the editor with an exception too
C18_CleanAfterCrash ==
  ed_event \in {"saved", "crashed"} => SavedClean

\* the lower-cased entries of a list
LowerSet(lst) == {Lower(lst[k]) : k \in 1..Len(lst)}

\* C19: when the output of the model holds no JSON object that parses,
\* parse_instruction returns the current config, and the config saved for
\* the instruction is the config before it, cleaned: no list gains or loses
\* an entry but by the case-insensitive cleaning, nor does the EmailMap.
C19_FailedParseKeepsConfig ==
  (ed_event = "saved" /\ ed_parsed.kind = "failed") =>
    /\ ed_parsed.obj = ed_before
    /\ config = normalize_case(clean_duplicates(ed_before))
    /\ \A key \in ListKeys :
         /\ LowerSet(config[key]) = LowerSet(ed_before[key])
         /\ \A k \in 1..Len(config[key]) : InList(config[key][k], ed_before[key])
    /\ {config.EmailMap[k].k : k \in 1..Len(config.EmailMap)}
         = {Lower(ed_before.EmailMap[k].k) : k \in 1..Len(ed_before.EmailMap)}
    /\ \A k \in 1..Len(config.EmailMap) :
         \E j \in 1..Len(ed_before.EmailMap) :
           /\ Lower(ed_before.EmailMap[j].k) = config.EmailMap[k].k
           /\ ed_before.EmailMap[j].v = config.EmailMap[k].v

C19_Witness ==
  /\ ed_event = "saved"
  /\ ed_parsed.kind = "failed"
  /\ ed_before.Label = <<Wk, wk>>
  /\ ed_before.EmailMap = <<[k |-> Ax, v |-> Wk]>>
  /\ config.Label = <<wk>>
  /\ config.EmailMap = <<[k |-> ax, v |-> Wk]>>

\* a failed parse on a config that was cleaned before
C19_WitnessLater ==
  /\ ed_event = "saved"
  /\ ed_parsed.kind = "failed"
  /\ ed_before.Friends = <<Ax>>
  /\ config = ed_before

====
